---- MODULE Spec2Model ----
(***************************************************************************)
(* OnChainCred: the Merkle commitment engine (class MerkleTree), the       *)
(* credit score engine (class CreditScoreEngine), the anchoring contract   *)
(* (OnchainScoreRegistry), the lending contract (LenderAdapter with its    *)
(* ScoreVerifier) and the storage of the RPC indexer (class RPCIndexer).   *)
(*                                                                         *)
(* Hash values are finite sequences of integers.  keccak256 over an ABI    *)
(* encoding is modelled as an injective term constructor written in        *)
(* prefix form, so that two hash values are equal exactly when they were   *)
(* built from the same inputs in the same order:                           *)
(*     <<i>>, i >= 1            an opaque 32-byte value (an input leaf)    *)
(*     <<0>> \o l \o r          keccak256(abi.encode(bytes32 l, bytes32 r))*)
(*     <<-1, n, s, m, u>>       keccak256(abi.encode(string n, uint256 s,  *)
(*                                        uint256 m, address u))           *)
(*     <<-2, u, t>> \o root     keccak256(abi.encode(address u,            *)
(*                                        bytes32 root, uint256 t))        *)
(*     <<-4, u, t>> \o root     keccak256(abi.encodePacked(address u,      *)
(*                                        bytes32 root, uint256 t))        *)
(*     <<-5>> \o h              the EIP-191 digest of the 32-byte h        *)
(*     <<-3, k>> \o h           key k's signature of the EIP-191 digest    *)
(*                              of h (signMessage)                         *)
(*     <<-8>>                   bytes32(0)                                 *)
(*     <<-9, t, n>> \o p \o root keccak256(abi.encodePacked(bytes p,       *)
(*                              bytes32 root, uint256 t)), n the length    *)
(*                              of p                                       *)
(* Array positions are 0-based as in the source; At(s, i) reads them.      *)
(***************************************************************************)
EXTENDS Integers, Sequences, FiniteSets, TLC

VARIABLES
    leaves,     \* MerkleTree: the leaf list handed to the tree operations
    call,       \* MerkleTree: the last operation applied, its inputs and result
    input,      \* CreditScoreEngine: the CanonicalEvents handed to computeScore
    now,        \* CreditScoreEngine: the wall clock, Math.floor(Date.now()/1000)
    bundle,     \* CreditScoreEngine: the outcome of the last computeScore
    indexerPrivateKey,  \* CreditScoreEngine: the key given to the constructor
    registry,   \* OnchainScoreRegistry: the contract's storage
    blockTimestamp,     \* OnchainScoreRegistry: block.timestamp of the chain
    lastTx,     \* OnchainScoreRegistry: the last transaction and its outcome
    anchored,   \* history: per user, the last submission that succeeded
    lending,    \* LenderAdapter: the contract's storage
    approvals,  \* history: per proof hash, the number of loans recorded with it
    poller,     \* RPCIndexer: the fields of the object and its environment
    store       \* RPCIndexer: the database rows, the files and the last save

vars == <<leaves, call, input, now, bundle, indexerPrivateKey,
          registry, blockTimestamp, lastTx, anchored,
          lending, approvals, poller, store>>

lenderVars == <<lending, approvals>>

pollerVars == <<poller, store>>

scoreVars == <<input, now, bundle, indexerPrivateKey>>

registryVars == <<registry, blockTimestamp, lastTx, anchored>>

\* ------------------------------------------------------------------ bounds

MaxLeaves == 5
NumAtoms == 3
MaxEvents == 3
MaxBlockSteps == 2
MaxBatch == 2
MaxSaves == 3

\* ------------------------------------------------------------ hash values

At(s, i) == s[i + 1]

\* What JavaScript reads outside an array, and for an absent value.
Undefined == <<>>

\* array[i] for any integer i: undefined outside 0..length-1.
elemAt(s, i) == IF i >= 0 /\ i < Len(s) THEN s[i + 1] ELSE Undefined

\* JavaScript's a % b for b > 0: the result takes the sign of a.
jsRemainder(a, b) == IF a >= 0 THEN a % b ELSE 0 - ((0 - a) % b)

\* A string that is not the hex form of 32 bytes.
MalformedBytes == <<-7>>

\* Values the bytes32 coder of defaultAbiCoder.encode accepts.
isBytes32(h) == h # Undefined /\ h # MalformedBytes

Atoms == {<<i>> : i \in 1..NumAtoms}

hashFunction(left, right) == <<0>> \o left \o right

\* ------------------------------------------------------------- MerkleTree

\* Padding that repeats the first leaf instead of the last.
padLeavesWithFirst(ls) ==
    IF Len(ls) % 2 = 0 THEN ls ELSE Append(ls, ls[1])

\* No padding at all: the list reaches the tree as it is.
padLeavesNever(ls) == ls

padLeaves(ls) ==
    IF Len(ls) % 2 = 0 THEN ls ELSE Append(ls, ls[Len(ls)])

\* A pass that leaves the unpaired last node out of the level above.
nextLevelDroppingUnpaired(currentLevel) ==
    [k \in 1..(Len(currentLevel) \div 2) |->
        hashFunction(currentLevel[2 * k - 1], currentLevel[2 * k])]

\* A pass that hashes each pair right before left.
nextLevelMirrored(currentLevel) ==
    [k \in 1..((Len(currentLevel) + 1) \div 2) |->
        IF 2 * k <= Len(currentLevel)
        THEN hashFunction(currentLevel[2 * k], currentLevel[2 * k - 1])
        ELSE hashFunction(currentLevel[2 * k - 1], currentLevel[2 * k - 1])]

\* One pass of the for loop of buildTree: the level above currentLevel.
nextLevel(currentLevel) ==
    [k \in 1..((Len(currentLevel) + 1) \div 2) |->
        IF 2 * k <= Len(currentLevel)
        THEN hashFunction(currentLevel[2 * k - 1], currentLevel[2 * k])
        ELSE hashFunction(currentLevel[2 * k - 1], currentLevel[2 * k - 1])]

RECURSIVE buildTreeFrom(_, _)
buildTreeFrom(tree, currentLevel) ==
    IF Len(currentLevel) > 1
    THEN LET nl == nextLevel(currentLevel)
         IN  buildTreeFrom(Append(tree, nl), nl)
    ELSE tree

buildTree(ls) == buildTreeFrom(<<ls>>, ls)

\* generateRoot without the single-leaf early return.
generateRootAlwaysHashing(ls) ==
    IF Len(ls) = 0
    THEN [status |-> "error", root |-> <<>>]
    ELSE LET tree == buildTree(padLeaves(ls))
         IN  [status |-> "ok", root |-> At(tree[Len(tree)], 0)]

\* generateRoot without the empty-list check: tree[0][0] of the tree of [].
generateRootUnchecked(ls) ==
    IF Len(ls) = 1
    THEN [status |-> "ok", root |-> At(ls, 0)]
    ELSE LET tree == buildTree(padLeaves(ls))
         IN  [status |-> "ok", root |-> elemAt(tree[Len(tree)], 0)]

generateRoot(ls) ==
    IF Len(ls) = 0
    THEN [status |-> "error", root |-> <<>>]
    ELSE IF Len(ls) = 1
    THEN [status |-> "ok", root |-> At(ls, 0)]
    ELSE LET tree == buildTree(padLeaves(ls))
         IN  [status |-> "ok", root |-> At(tree[Len(tree)], 0)]

EmptyProof == [path |-> <<>>, siblings |-> <<>>, indices |-> <<>>]

\* The level loop of generateProof, from `level` up to the level below the root.
RECURSIVE proofWalk(_, _, _, _)
proofWalk(tree, level, currentIndex, acc) ==
    IF level < Len(tree) - 1
    THEN LET levelSize == Len(At(tree, level))
             isRight == jsRemainder(currentIndex, 2) = 1
             siblingIndex == IF isRight THEN currentIndex - 1 ELSE currentIndex + 1
             pushed == IF siblingIndex < levelSize
                       THEN [path |-> Append(acc.path, elemAt(At(tree, level), currentIndex)),
                             siblings |-> Append(acc.siblings, elemAt(At(tree, level), siblingIndex)),
                             indices |-> Append(acc.indices, IF isRight THEN 1 ELSE 0)]
                       ELSE acc
         IN  proofWalk(tree, level + 1, currentIndex \div 2, pushed)
    ELSE acc

\* leafIndex is any integer: the only check is against the upper end.
generateProof(ls, leafIndex) ==
    IF leafIndex >= Len(ls)
    THEN [status |-> "error", leaf |-> <<>>,
          path |-> <<>>, siblings |-> <<>>, indices |-> <<>>]
    ELSE LET tree == buildTree(padLeaves(ls))
             walk == proofWalk(tree, 0, leafIndex, EmptyProof)
         IN  [status |-> "ok", leaf |-> elemAt(ls, leafIndex),
              path |-> walk.path, siblings |-> walk.siblings, indices |-> walk.indices]

\* The fold of verifyProof over proof[i..], starting from currentHash.
RECURSIVE verifyFold(_, _, _, _)
verifyFold(currentHash, proof, indices, i) ==
    IF i < Len(proof)
    THEN LET isRight == At(indices, i) = 1
             sibling == At(proof, i)
         IN  verifyFold(IF isRight THEN hashFunction(sibling, currentHash)
                                   ELSE hashFunction(currentHash, sibling),
                        proof, indices, i + 1)
    ELSE currentHash

\* verifyProof's result when it returns (verifyProofRaises tells when it
\* does not).
verifyProof(leaf, proof, root, indices) ==
    IF Len(proof) # Len(indices)
    THEN FALSE
    ELSE verifyFold(leaf, proof, indices, 0) = root

\* verifyProof throws instead of returning: the loop hands leaf and every
\* proof[i] to hashFunction, whose bytes32 coder throws on a value that is
\* not 32 bytes.  The length check comes first; an empty proof hashes nothing.
verifyProofRaises(leaf, proof, root, indices) ==
    /\ Len(proof) = Len(indices)
    /\ Len(proof) > 0
    /\ (~isBytes32(leaf) \/ \E i \in 1..Len(proof) : ~isBytes32(proof[i]))

\* ------------------------------------------- MerkleTree as a state machine
\* Init draws the leaf list; each action applies one operation of the class
\* to it and records the call.  VerifyGenerated continues a generateProof.

NoCall ==
    [op |-> "none", origin |-> "none", status |-> "none", index |-> 0,
     leaf |-> <<>>, path |-> <<>>, siblings |-> <<>>, indices |-> <<>>,
     root |-> <<>>, ok |-> FALSE]

RECURSIVE SeqsUpTo(_, _)
SeqsUpTo(S, n) ==
    IF n = 0 THEN {<<>>}
    ELSE LET shorter == SeqsUpTo(S, n - 1)
         IN  shorter \cup {Append(s, x) : s \in {t \in shorter : Len(t) = n - 1}, x \in S}

LeafLists == SeqsUpTo(Atoms, MaxLeaves)

\* The engine is idle while the tree operations are exercised.
ScoreIdle == now = 0 /\ indexerPrivateKey = 0 /\ input = <<>> /\ bundle = <<>>

\* No contract is deployed while the tree or the engine is exercised.
RegistryIdle ==
    blockTimestamp = 0 /\ registry = <<>> /\ lastTx = <<>> /\ anchored = <<>>

LenderIdle == lending = <<>> /\ approvals = <<>>

\* No indexer object exists.
PollerIdle == poller = <<>> /\ store = <<>>

MerkleInit ==
    /\ leaves \in LeafLists
    /\ call = NoCall
    /\ ScoreIdle
    /\ RegistryIdle
    /\ LenderIdle
    /\ PollerIdle

\* tree.generateRoot(leaves)
GenerateRoot ==
    /\ call.op = "none"
    /\ LET r == generateRoot(leaves)
       IN  call' = [NoCall EXCEPT !.op = "generateRoot", !.status = r.status,
                                  !.root = r.root]
    /\ UNCHANGED <<lenderVars, pollerVars, leaves, scoreVars, registryVars>>

\* tree.generateProof(leaves, leafIndex)
GenerateProof(leafIndex) ==
    /\ call.op = "none"
    /\ LET p == generateProof(leaves, leafIndex)
       IN  call' = [NoCall EXCEPT !.op = "generateProof", !.status = p.status,
                                  !.index = leafIndex, !.leaf = p.leaf,
                                  !.path = p.path, !.siblings = p.siblings,
                                  !.indices = p.indices]
    /\ UNCHANGED <<lenderVars, pollerVars, leaves, scoreVars, registryVars>>

\* tree.verifyProof(proof.leaf, proof.siblings, tree.generateRoot(leaves),
\* proof.indices) on the proof the preceding generateProof returned.
VerifyGenerated ==
    /\ call.op = "generateProof"
    /\ call.status = "ok"
    /\ call.index >= 0
    /\ LET root == generateRoot(leaves).root
       IN  call' = [call EXCEPT !.op = "verifyProof", !.origin = "generated",
                                !.root = root,
                                !.ok = verifyProof(call.leaf, call.siblings, root,
                                                   call.indices)]
    /\ UNCHANGED <<lenderVars, pollerVars, leaves, scoreVars, registryVars>>

\* The path from the node at (level, index) of a built tree to its root, each
\* unpaired node being paired with itself as buildTree pairs it.
RECURSIVE pathAbove(_, _, _, _)
pathAbove(tree, level, currentIndex, acc) ==
    IF level < Len(tree) - 1
    THEN LET row == At(tree, level)
             isRight == currentIndex % 2 = 1
             siblingIndex == IF isRight THEN currentIndex - 1 ELSE currentIndex + 1
             sibling == IF siblingIndex < Len(row) THEN At(row, siblingIndex)
                                                   ELSE At(row, currentIndex)
         IN  pathAbove(tree, level + 1, currentIndex \div 2,
                       [path |-> Append(acc.path, At(row, currentIndex)),
                        siblings |-> Append(acc.siblings, sibling),
                        indices |-> Append(acc.indices, IF isRight THEN 1 ELSE 0)])
    ELSE acc

\* What a caller holding the tree of `leaves` can present to verifyProof
\* besides a generated proof: any node of the tree with the path above it,
\* and any opaque value with the proof generated for some index.
PresentedProofs(ls) ==
    IF Len(ls) = 0 THEN {}
    ELSE LET tree == buildTree(padLeaves(ls))
         IN  {[origin |-> "node", index |-> i, leaf |-> At(At(tree, level), i),
               proof |-> pathAbove(tree, level, i, EmptyProof)] :
                 <<level, i>> \in {<<l, j>> \in (0..(Len(tree) - 1)) \X (0..MaxLeaves) :
                                      j < Len(At(tree, l))}}
             \cup
             {[origin |-> "value", index |-> i, leaf |-> x,
               proof |-> generateProof(ls, i)] :
                 <<x, i>> \in Atoms \X (0..(Len(ls) - 1))}

\* tree.verifyProof(leaf, siblings, tree.generateRoot(leaves), indices) on
\* inputs the caller chose.
VerifyPresented ==
    /\ call.op = "none"
    /\ \E c \in PresentedProofs(leaves) :
         LET root == generateRoot(leaves).root
         IN  call' = [NoCall EXCEPT !.op = "verifyProof", !.origin = c.origin,
                                    !.status = "ok", !.index = c.index,
                                    !.leaf = c.leaf, !.path = c.proof.path,
                                    !.siblings = c.proof.siblings,
                                    !.indices = c.proof.indices, !.root = root,
                                    !.ok = verifyProof(c.leaf, c.proof.siblings, root,
                                                       c.proof.indices)]
    /\ UNCHANGED <<lenderVars, pollerVars, leaves, scoreVars, registryVars>>

\* Inputs of a caller who holds no tree: a leaf, up to two siblings and up
\* to two side bits, any of the hash values possibly malformed.
UntrustedValues == {<<1>>, MalformedBytes}
UntrustedInputs ==
    [leaf : UntrustedValues, siblings : SeqsUpTo(UntrustedValues, 2),
     indices : SeqsUpTo({0, 1}, 2)]

\* tree.verifyProof(leaf, siblings, root, indices) on untrusted input; the
\* root is that of `leaves` (these calls do not depend on the tree, so they
\* are made for the lists of at most one leaf).
VerifyUntrusted ==
    /\ call.op = "none"
    /\ Len(leaves) <= 1
    /\ \E c \in UntrustedInputs :
         LET root == IF Len(leaves) = 0 THEN <<1>> ELSE generateRoot(leaves).root
             raises == verifyProofRaises(c.leaf, c.siblings, root, c.indices)
         IN  call' = [NoCall EXCEPT !.op = "verifyProof", !.origin = "untrusted",
                                    !.status = IF raises THEN "error" ELSE "ok",
                                    !.leaf = c.leaf, !.siblings = c.siblings,
                                    !.indices = c.indices, !.root = root,
                                    !.ok = IF raises THEN FALSE
                                           ELSE verifyProof(c.leaf, c.siblings, root,
                                                            c.indices)]
    /\ UNCHANGED <<lenderVars, pollerVars, leaves, scoreVars, registryVars>>

MerkleNext ==
    \/ GenerateRoot
    \/ \E leafIndex \in -2..MaxLeaves : GenerateProof(leafIndex)
    \/ VerifyGenerated
    \/ VerifyPresented
    \/ VerifyUntrusted

MerkleSpec == MerkleInit /\ [][MerkleNext]_vars

\* ------------------------------------------------------ MerkleTree: claims

\* C1 (as claimed): every proof generateProof returns for a valid index of a
\* non-empty leaf list verifies against generateRoot of the same list.
C1_RoundTrip ==
    (call.op = "verifyProof" /\ call.origin = "generated") => call.ok

\* C1: the round trip was run on the last of five leaves.
C1_RoundTripRun ==
    /\ call.op = "verifyProof"
    /\ call.origin = "generated"
    /\ Len(leaves) = 5
    /\ call.index = 4

\* The position a sequence of side bits designates, lowest level first.
RECURSIVE designatedIndex(_)
designatedIndex(indices) ==
    IF Len(indices) = 0 THEN 0
    ELSE Head(indices) + 2 * designatedIndex(Tail(indices))

\* x is the leaf of the tree of ls at the position the side bits designate:
\* the path has one entry per level below the root and ends on x.
IsLeafAtDesignatedIndex(ls, x, indices) ==
    LET level0 == IF Len(ls) = 1 THEN ls ELSE padLeaves(ls)
        tree == buildTree(level0)
    IN  /\ Len(indices) = Len(tree) - 1
        /\ designatedIndex(indices) < Len(level0)
        /\ At(level0, designatedIndex(indices)) = x

\* C3 (as claimed): verifyProof accepts (x, siblings, indices) against the
\* root of a tree only if x is the leaf of that tree at the designated index.
C3_ProofSoundness ==
    (call.op = "verifyProof" /\ call.ok) =>
        IsLeafAtDesignatedIndex(leaves, call.leaf, call.indices)

\* C3: an internal node of a four-leaf tree was presented as a leaf.
C3_InternalNodePresented ==
    /\ call.op = "verifyProof"
    /\ call.origin = "node"
    /\ Len(leaves) = 4
    /\ Len(call.indices) = 1

\* C9: generateRoot of a one-element list returns that element unhashed.
C9_SingleLeafIdentity ==
    (call.op = "generateRoot" /\ Len(leaves) = 1) =>
        (call.status = "ok" /\ call.root = At(leaves, 0))

\* C9: generateRoot was applied to a one-element list.
C9_SingleLeafRooted ==
    /\ call.op = "generateRoot"
    /\ Len(leaves) = 1
    /\ call.status = "ok"

\* C10: for an odd number (>= 3) of leaves, generateRoot returns the root of
\* the list with its last leaf appended once more.
C10_OddLeafPadding ==
    (call.op = "generateRoot" /\ Len(leaves) >= 3 /\ Len(leaves) % 2 = 1) =>
        /\ call.status = "ok"
        /\ call.root = generateRoot(Append(leaves, At(leaves, Len(leaves) - 1))).root

\* C10: generateRoot was applied to three leaves whose first and last differ.
C10_OddLeavesRooted ==
    /\ call.op = "generateRoot"
    /\ call.status = "ok"
    /\ Len(leaves) = 3
    /\ At(leaves, 0) # At(leaves, 2)

\* C11: for every list of three leaves, the proof generateProof returns for
\* index 0, 1 or 2 verifies with verifyProof against generateRoot of the list.
C11_ThreeLeafProofsVerify ==
    (call.op = "verifyProof" /\ call.origin = "generated" /\ Len(leaves) = 3) =>
        (call.status = "ok" /\ call.ok /\ call.index \in 0..2)

\* C11: the proof of the third of three pairwise different leaves was
\* verified (its sibling is the padding leaf).
C11_ThirdLeafVerified ==
    /\ call.op = "verifyProof"
    /\ call.origin = "generated"
    /\ Len(leaves) = 3
    /\ call.index = 2
    /\ leaves[1] # leaves[2] /\ leaves[2] # leaves[3] /\ leaves[1] # leaves[3]
    /\ call.siblings[1] = leaves[3]

\* C12 (as claimed): verifyProof never raises, and returns false whenever
\* the siblings and the side bits differ in number.
C12_VerifyFailsClosed ==
    call.op = "verifyProof" =>
        /\ call.status # "error"
        /\ (Len(call.siblings) # Len(call.indices) => ~call.ok)

\* C12: verifyProof was handed one sibling and two side bits.
C12_MismatchPresented ==
    /\ call.op = "verifyProof"
    /\ call.origin = "untrusted"
    /\ Len(call.siblings) = 1
    /\ Len(call.indices) = 2

\* C13 (as claimed): generateProof fails exactly for the indices that are
\* not a position of the list, negative ones included.
C13_IndexRangeChecked ==
    call.op = "generateProof" =>
        (call.status = "error" <=> ~(call.index >= 0 /\ call.index < Len(leaves)))

\* C13: generateProof was asked for index -1 of a two-leaf list.
C13_NegativeIndexAsked ==
    /\ call.op = "generateProof"
    /\ call.index = -1
    /\ Len(leaves) = 2

\* ------------------------------------------------------------ arithmetic
\* Scores are JavaScript numbers; they are modelled as exact fractions
\* [n |-> numerator, d |-> denominator > 0] in lowest terms.

RECURSIVE gcd(_, _)
gcd(a, b) == IF b = 0 THEN a ELSE gcd(b, a % b)

abs(a) == IF a < 0 THEN -a ELSE a

Rat(n, d) ==
    LET g == gcd(abs(n), d)
    IN  [n |-> n \div g, d |-> d \div g]

Num(k) == [n |-> k, d |-> 1]

RatAdd(a, b) == Rat(a.n * b.d + b.n * a.d, a.d * b.d)

RatSub(a, b) == Rat(a.n * b.d - b.n * a.d, a.d * b.d)

\* a * k for an integer k >= 0, reducing before multiplying.
RatTimes(a, k) ==
    LET g == gcd(k, a.d)
    IN  Rat(a.n * (k \div g), a.d \div g)

\* a / k for an integer k > 0, reducing before multiplying.
RatOver(a, k) ==
    LET g == gcd(abs(a.n), k)
    IN  Rat(a.n \div g, a.d * (k \div g))

RatLE(a, b) == a.n * b.d <= b.n * a.d

RatMin(a, b) == IF RatLE(a, b) THEN a ELSE b

RatMax(a, b) == IF RatLE(a, b) THEN b ELSE a

\* ------------------------------------------------------ CreditScoreEngine

Day == 24 * 60 * 60

\* events.filter(e => e.type === type)
filterType(events, type) == SelectSeq(events, LAMBDA e : e.type = type)

\* The running sums of the loop of computeRepaymentScore over events[i..].
RECURSIVE repaymentTotals(_, _, _)
repaymentTotals(events, i, acc) ==
    IF i > Len(events) THEN acc
    ELSE LET event == events[i]
             next == IF event.metadata.action = "borrow"
                     THEN [acc EXCEPT !.totalBorrowed = @ + event.value]
                     ELSE IF event.metadata.action = "repay"
                     THEN IF event.metadata.onTime
                          THEN [acc EXCEPT !.totalRepaid = @ + event.value,
                                           !.onTimePayments = @ + 1]
                          ELSE [acc EXCEPT !.totalRepaid = @ + event.value,
                                           !.latePayments = @ + 1]
                     ELSE acc
         IN  repaymentTotals(events, i + 1, next)

\* The on-time bonus counted over on-time payments only.
computeRepaymentScoreOnTimeOnly(events) ==
    LET lendingEvents == filterType(events, "lending")
        t == repaymentTotals(lendingEvents, 1,
                 [totalBorrowed |-> 0, totalRepaid |-> 0,
                  onTimePayments |-> 0, latePayments |-> 0])
    IN  IF Len(lendingEvents) = 0 THEN Num(0)
        ELSE IF t.totalBorrowed = 0 THEN Num(0)
        ELSE LET base == RatMin(RatTimes(Rat(t.totalRepaid, t.totalBorrowed), 300), Num(300))
                 score == IF t.onTimePayments > 0 THEN RatAdd(base, Num(100)) ELSE base
             IN  RatMin(score, Num(400))

computeRepaymentScore(events) ==
    LET lendingEvents == filterType(events, "lending")
        t == repaymentTotals(lendingEvents, 1,
                 [totalBorrowed |-> 0, totalRepaid |-> 0,
                  onTimePayments |-> 0, latePayments |-> 0])
    IN  IF Len(lendingEvents) = 0 THEN Num(0)
        ELSE IF t.totalBorrowed = 0 THEN Num(0)
        ELSE LET repaymentRatio == Rat(t.totalRepaid, t.totalBorrowed)
                 base == RatMin(RatTimes(repaymentRatio, 300), Num(300))
                 totalPayments == t.onTimePayments + t.latePayments
                 score == IF totalPayments > 0
                          THEN RatAdd(base, RatTimes(Rat(t.onTimePayments, totalPayments), 100))
                          ELSE base
             IN  RatMin(score, Num(400))

\* The running sums of the loop of computeStakingScore over events[i..].
RECURSIVE stakingTotals(_, _, _)
stakingTotals(events, i, acc) ==
    IF i > Len(events) THEN acc
    ELSE LET event == events[i]
             duration == event.metadata.duration
             next == IF event.metadata.action = "stake"
                     THEN [totalStaked |-> acc.totalStaked + event.value,
                           averageDuration |-> acc.averageDuration + duration,
                           longTermStakes |-> acc.longTermStakes
                                              + (IF duration >= 180 * Day THEN 1 ELSE 0)]
                     ELSE acc
         IN  stakingTotals(events, i + 1, next)

computeStakingScore(events) ==
    LET stakingEvents == filterType(events, "staking")
        t == stakingTotals(stakingEvents, 1,
                 [totalStaked |-> 0, averageDuration |-> 0, longTermStakes |-> 0])
    IN  IF Len(stakingEvents) = 0 THEN Num(0)
        ELSE LET averageDuration == Rat(t.averageDuration, Len(stakingEvents))
                 amountScore == RatMin(RatTimes(Rat(t.totalStaked, 10), 150), Num(150))
                 durationScore == RatMin(RatTimes(RatOver(averageDuration, 365 * Day), 100),
                                         Num(100))
             IN  RatAdd(amountScore, durationScore)

\* The running sums of the loop of computeActivityScore over events[i..].
RECURSIVE activityTotals(_, _, _, _, _)
activityTotals(events, i, thirtyDaysAgo, ninetyDaysAgo, acc) ==
    IF i > Len(events) THEN acc
    ELSE LET event == events[i]
             seen == [acc EXCEPT !.totalVolume = @ + event.value]
             next == IF event.timestamp >= thirtyDaysAgo
                     THEN [seen EXCEPT !.recentActivity = @ + 1]
                     ELSE IF event.timestamp >= ninetyDaysAgo
                     THEN [seen EXCEPT !.mediumActivity = @ + 1]
                     ELSE seen
         IN  activityTotals(events, i + 1, thirtyDaysAgo, ninetyDaysAgo, next)

\* clock is what Math.floor(Date.now() / 1000) returns during the call.
computeActivityScore(events, clock) ==
    LET transactionEvents == filterType(events, "transaction")
        thirtyDaysAgo == clock - 30 * Day
        ninetyDaysAgo == clock - 90 * Day
        t == activityTotals(transactionEvents, 1, thirtyDaysAgo, ninetyDaysAgo,
                 [recentActivity |-> 0, mediumActivity |-> 0, totalVolume |-> 0])
    IN  IF Len(transactionEvents) = 0 THEN Num(0)
        ELSE LET frequencyScore == RatMin(Num(t.recentActivity * 10 + t.mediumActivity * 5),
                                          Num(100))
                 volumeScore == RatMin(RatTimes(Rat(t.totalVolume, 100), 100), Num(100))
             IN  RatAdd(frequencyScore, volumeScore)

computeAttestationScore(events) ==
    LET attestationEvents == filterType(events, "attestation")
    IN  RatMin(Num(Len(attestationEvents) * 20), Num(100))

\* The running sum of the loop of computeRiskScore over events[i..].
RECURSIVE riskTotal(_, _, _)
riskTotal(events, i, riskScore) ==
    IF i > Len(events) THEN riskScore
    ELSE LET t == events[i].metadata.riskType
         IN  riskTotal(events, i + 1,
                 IF t = "late_payment" THEN riskScore + 20
                 ELSE IF t = "high_leverage" THEN riskScore + 15
                 ELSE IF t = "suspicious_activity" THEN riskScore + 25
                 ELSE riskScore)

computeRiskScore(events) ==
    RatMin(Num(riskTotal(filterType(events, "risk"), 1, 0)), Num(50))

getRepaymentReason(score) ==
    IF RatLE(Num(350), score) THEN "Excellent repayment history with consistent on-time payments"
    ELSE IF RatLE(Num(250), score) THEN "Good repayment history with occasional late payments"
    ELSE IF RatLE(Num(150), score) THEN "Fair repayment history with some late payments"
    ELSE "Poor repayment history with frequent late payments"

getStakingReason(score) ==
    IF RatLE(Num(200), score) THEN "Strong staking behavior with long-term commitments"
    ELSE IF RatLE(Num(150), score) THEN "Good staking behavior with moderate duration"
    ELSE IF RatLE(Num(100), score) THEN "Fair staking behavior with short-term stakes"
    ELSE "Limited staking activity"

getActivityReason(score) ==
    IF RatLE(Num(150), score) THEN "High transaction activity with significant volume"
    ELSE IF RatLE(Num(100), score) THEN "Moderate transaction activity"
    ELSE IF RatLE(Num(50), score) THEN "Low transaction activity"
    ELSE "Minimal transaction activity"

getAttestationReason(score) ==
    IF RatLE(Num(80), score) THEN "Strong social attestations from trusted sources"
    ELSE IF RatLE(Num(60), score) THEN "Good social attestations"
    ELSE IF RatLE(Num(40), score) THEN "Some social attestations"
    ELSE "Limited social attestations"

getRiskReason(score) ==
    IF RatLE(score, Num(10)) THEN "Low risk profile with clean history"
    ELSE IF RatLE(score, Num(25)) THEN "Moderate risk with some concerns"
    ELSE IF RatLE(score, Num(40)) THEN "High risk with multiple red flags"
    ELSE "Very high risk profile"

\* this.weights
weights ==
    [repayment |-> Rat(40, 100), staking |-> Rat(25, 100), activity |-> Rat(20, 100),
     attestations |-> Rat(10, 100), risk |-> Rat(5, 100)]

computeComponents(events, clock) ==
    LET repaymentScore == computeRepaymentScore(events)
        stakingScore == computeStakingScore(events)
        activityScore == computeActivityScore(events, clock)
        attestationScore == computeAttestationScore(events)
        riskScore == computeRiskScore(events)
    IN  << [name |-> "Repayment History", score |-> repaymentScore,
            weight |-> weights.repayment,
            reason |-> getRepaymentReason(repaymentScore), maxScore |-> 400],
           [name |-> "Staking Behavior", score |-> stakingScore,
            weight |-> weights.staking,
            reason |-> getStakingReason(stakingScore), maxScore |-> 250],
           [name |-> "Transaction Activity", score |-> activityScore,
            weight |-> weights.activity,
            reason |-> getActivityReason(activityScore), maxScore |-> 200],
           [name |-> "Social Attestations", score |-> attestationScore,
            weight |-> weights.attestations,
            reason |-> getAttestationReason(attestationScore), maxScore |-> 100],
           [name |-> "Risk Assessment", score |-> riskScore,
            weight |-> weights.risk,
            reason |-> getRiskReason(riskScore), maxScore |-> 50] >>

\* The loop of calculateTotalScore over components[i..].
RECURSIVE signedSum(_, _, _)
signedSum(components, i, totalScore) ==
    IF i > Len(components) THEN totalScore
    ELSE signedSum(components, i + 1,
             IF components[i].name = "Risk Assessment"
             THEN RatSub(totalScore, components[i].score)
             ELSE RatAdd(totalScore, components[i].score))

\* A total that adds the risk score like the other four.
calculateTotalScoreAddingRisk(components) ==
    RatMax(Num(0),
           RatMin(signedSum([i \in 1..Len(components) |->
                                [components[i] EXCEPT !.name = "x"]], 1, Num(0)),
                  Num(1000)))

\* A total that starts from a base score of 100.
calculateTotalScoreWithBase(components) ==
    RatMax(Num(0), RatMin(signedSum(components, 1, Num(100)), Num(1000)))

\* A total that takes the last component for the risk, whatever its name.
calculateTotalScoreByPosition(components) ==
    RatMax(Num(0),
           RatMin(signedSum([i \in 1..Len(components) |->
                                [components[i] EXCEPT !.name =
                                    IF i = Len(components) THEN "Risk Assessment"
                                                           ELSE "x"]], 1, Num(0)),
                  Num(1000)))

\* A total that is not clamped.
calculateTotalScoreUnclamped(components) == signedSum(components, 1, Num(0))

\* this.maxScore = 1000
calculateTotalScore(components) ==
    RatMax(Num(0), RatMin(signedSum(components, 1, Num(0)), Num(1000)))

\* The integer an ABI string stands for inside a modelled hash value.
nameCode(name) ==
    CASE name = "Repayment History" -> 1
      [] name = "Staking Behavior" -> 2
      [] name = "Transaction Activity" -> 3
      [] name = "Social Attestations" -> 4
      [] name = "Risk Assessment" -> 5

\* defaultAbiCoder.encode of a JavaScript number as uint256 throws unless the
\* number is a non-negative integer.
encodableAsUint(score) == score.d = 1 /\ score.n >= 0

\* keccak256(defaultAbiCoder.encode(['string','uint256','uint256','address'],
\*           [name, score, maxScore, userAddress]))
leafHash(name, score, maxScore, userAddress) ==
    <<-1, nameCode(name), score.n, maxScore, userAddress>>

generateLeaves(components, userAddress) ==
    IF \E i \in 1..Len(components) : ~encodableAsUint(components[i].score)
    THEN [status |-> "error", leaves |-> <<>>]
    ELSE [status |-> "ok",
          leaves |-> [i \in 1..Len(components) |->
                         leafHash(components[i].name, components[i].score,
                                  components[i].maxScore, userAddress)]]

\* Keys new ethers.Wallet accepts, and a malformed one it throws on.
WalletKeys == {11}
MalformedKeys == {0}

signScoreBundle(key, userAddress, merkleRoot, timestamp) ==
    IF key \notin WalletKeys
    THEN [status |-> "error", signature |-> <<>>]
    ELSE LET messageHash == <<-2, userAddress, timestamp>> \o merkleRoot
         IN  [status |-> "ok", signature |-> <<-3, key>> \o messageHash]

NoBundle ==
    [status |-> "none", totalScore |-> Num(0), components |-> <<>>, timestamp |-> 0,
     userAddress |-> 0, merkleRoot |-> <<>>, proofLeaves |-> <<>>,
     indexerSignature |-> <<>>, signerCalls |-> 0]

\* computeScore that catches the signer's failure and returns the bundle
\* without a signature.
computeScoreUnsigned(events, key, clock) ==
    LET components == computeComponents(events.events, clock)
        totalScore == calculateTotalScore(components)
        leavesRes == generateLeaves(components, events.userAddress)
        rootRes == generateRoot(leavesRes.leaves)
        signed == signScoreBundle(key, events.userAddress, rootRes.root, events.timestamp)
    IN  IF leavesRes.status = "error" THEN [NoBundle EXCEPT !.status = "encode_error"]
        ELSE IF rootRes.status = "error" THEN [NoBundle EXCEPT !.status = "root_error"]
        ELSE [status |-> "ok", totalScore |-> totalScore, components |-> components,
              timestamp |-> events.timestamp, userAddress |-> events.userAddress,
              merkleRoot |-> rootRes.root, proofLeaves |-> leavesRes.leaves,
              indexerSignature |-> signed.signature, signerCalls |-> 1]

\* computeScore(events) of an engine constructed with `key`, run while the
\* wall clock reads `clock`.  A thrown error or rejected promise leaves no
\* bundle; signerCalls counts the calls of signScoreBundle made on the way.
computeScore(events, key, clock) ==
    LET components == computeComponents(events.events, clock)
        totalScore == calculateTotalScore(components)
        leavesRes == generateLeaves(components, events.userAddress)
        rootRes == generateRoot(leavesRes.leaves)
        signed == signScoreBundle(key, events.userAddress, rootRes.root, events.timestamp)
    IN  IF leavesRes.status = "error" THEN [NoBundle EXCEPT !.status = "encode_error"]
        ELSE IF rootRes.status = "error" THEN [NoBundle EXCEPT !.status = "root_error"]
        ELSE IF signed.status = "error"
        THEN [NoBundle EXCEPT !.status = "sign_error", !.signerCalls = 1]
        ELSE [status |-> "ok", totalScore |-> totalScore, components |-> components,
              timestamp |-> events.timestamp, userAddress |-> events.userAddress,
              merkleRoot |-> rootRes.root, proofLeaves |-> leavesRes.leaves,
              indexerSignature |-> signed.signature, signerCalls |-> 1]

\* MerkleTree.createScoreTree(components), each component carrying userAddress.
createScoreTree(components) ==
    LET ls == [i \in 1..Len(components) |->
                  leafHash(components[i].name, components[i].score,
                           components[i].maxScore, components[i].userAddress)]
        rootRes == generateRoot(ls)
    IN  IF \E i \in 1..Len(components) : ~encodableAsUint(components[i].score)
        THEN [status |-> "error", root |-> <<>>, leaves |-> <<>>, proofs |-> <<>>]
        ELSE IF rootRes.status = "error"
        THEN [status |-> "error", root |-> <<>>, leaves |-> <<>>, proofs |-> <<>>]
        ELSE [status |-> "ok", root |-> rootRes.root, leaves |-> ls,
              proofs |-> [i \in 1..Len(components) |-> generateProof(ls, i - 1)]]

\* MerkleTree.verifyScoreComponent(component, proof, root)
verifyScoreComponent(component, proof, root) ==
    LET leaf == leafHash(component.name, component.score, component.maxScore,
                         component.userAddress)
    IN  verifyProof(leaf, proof.siblings, root, proof.indices)

\* --------------------------------------- CreditScoreEngine as a state machine
\* Init draws the CanonicalEvents and the constructor's key; the wall clock
\* advances between calls of computeScore.  A consumer's verification of one
\* component of the bundle is the last step of a run (call records it).

\* An absent metadata key reads as "none" (action, riskType), FALSE (onTime,
\* undefined being falsy) or 0 (duration, by `|| 0`).
NoMetadata == [action |-> "none", onTime |-> FALSE, duration |-> 0, riskType |-> "none"]

Event(type, timestamp, value, metadata) ==
    [type |-> type, timestamp |-> timestamp, value |-> value,
     metadata |-> metadata, weight |-> 1]

LendingEvents ==
    { Event("lending", 100 * Day, 1000, [NoMetadata EXCEPT !.action = "borrow"]),
      Event("lending", 120 * Day, 1000, [NoMetadata EXCEPT !.action = "repay", !.onTime = TRUE]),
      Event("lending", 130 * Day, 0, [NoMetadata EXCEPT !.action = "repay"]) }

StakingEvents ==
    { Event("staking", 100 * Day, 5, [NoMetadata EXCEPT !.action = "stake", !.duration = 365 * Day]),
      Event("staking", 140 * Day, 5, [NoMetadata EXCEPT !.action = "unstake"]) }

TransactionEvents ==
    { Event("transaction", 190 * Day, 50, NoMetadata) }

AttestationEvents ==
    { Event("attestation", 150 * Day, 1, NoMetadata) }

RiskEvents ==
    { Event("risk", 160 * Day, 0, [NoMetadata EXCEPT !.riskType = t]) :
        t \in {"late_payment", "high_leverage", "suspicious_activity", "governance_dispute"} }

EventPool ==
    LendingEvents \cup StakingEvents \cup TransactionEvents
        \cup AttestationEvents \cup RiskEvents

\* Lists long enough to saturate the frequency and attestation terms.
SaturatingLists ==
    { [i \in 1..11 |-> Event("transaction", 190 * Day, 50, NoMetadata)],
      [i \in 1..6 |-> Event("attestation", 150 * Day, 1, NoMetadata)] }

EventLists == SeqsUpTo(EventPool, MaxEvents) \cup SaturatingLists

Addresses == {4096}

\* Wall-clock readings: the transaction of EventPool is 10 days old at the
\* first and 60 days old at the second.
Clocks == {200 * Day, 250 * Day}

ScoreInit ==
    /\ input \in [userAddress : Addresses, events : EventLists, timestamp : {200 * Day}]
    /\ now = 200 * Day
    /\ bundle = NoBundle
    /\ indexerPrivateKey \in WalletKeys \cup MalformedKeys
    /\ leaves = <<>>
    /\ call = NoCall
    /\ RegistryIdle
    /\ LenderIdle
    /\ PollerIdle

\* await engine.computeScore(input)
ComputeScore ==
    /\ call.op = "none"
    /\ bundle' = computeScore(input, indexerPrivateKey, now)
    /\ UNCHANGED <<lenderVars, pollerVars, leaves, call, input, now, indexerPrivateKey, registryVars>>

\* Time passes between two calls.
Tick ==
    /\ call.op = "none"
    /\ \E t \in Clocks : t > now /\ now' = t
    /\ UNCHANGED <<lenderVars, pollerVars, leaves, call, input, bundle, indexerPrivateKey, registryVars>>

withUser(component, userAddress) ==
    [name |-> component.name, score |-> component.score,
     maxScore |-> component.maxScore, userAddress |-> userAddress]

\* A consumer of the bundle proves component i: the proof is
\* createScoreTree(components).proofs[i], checked by verifyScoreComponent
\* against the bundle's merkleRoot.
VerifyScoreComponent(i) ==
    /\ bundle.status = "ok"
    /\ call.op = "none"
    /\ i < Len(bundle.components)
    /\ \E comps \in {[k \in 1..Len(bundle.components) |->
                         withUser(bundle.components[k], bundle.userAddress)]} :
       \E tree \in {createScoreTree(comps)} :
         LET proof == At(tree.proofs, i)
         IN  call' = [NoCall EXCEPT !.op = "verifyScoreComponent", !.origin = "generated",
                                    !.status = tree.status, !.index = i,
                                    !.leaf = proof.leaf, !.path = proof.path,
                                    !.siblings = proof.siblings, !.indices = proof.indices,
                                    !.root = bundle.merkleRoot,
                                    !.ok = verifyScoreComponent(At(comps, i), proof,
                                                                bundle.merkleRoot)]
    /\ UNCHANGED <<lenderVars, pollerVars, leaves, scoreVars, registryVars>>

ScoreNext ==
    \/ ComputeScore
    \/ Tick
    \/ \E i \in 0..4 : VerifyScoreComponent(i)

ScoreSpec == ScoreInit /\ [][ScoreNext]_vars

\* The tree operations on their own and the engine's runs, side by side: a
\* behaviour exercises either the tree on a drawn leaf list or the engine.
TreeAndEngineInit == MerkleInit \/ ScoreInit

TreeAndEngineNext ==
    \/ ScoreIdle /\ MerkleNext
    \/ ~ScoreIdle /\ ScoreNext

TreeAndEngineSpec == TreeAndEngineInit /\ [][TreeAndEngineNext]_vars

\* ------------------------------------------------ CreditScoreEngine: claims

\* C2 (as claimed): every component of a computed bundle verifies with its
\* generated proof against the bundle's merkleRoot.
C2_ComponentsProvable ==
    call.op = "verifyScoreComponent" => call.ok

\* C2: the proof of the fifth component (Risk Assessment) was checked.
C2_FifthComponentChecked ==
    /\ call.op = "verifyScoreComponent"
    /\ call.index = 4

\* C4 (as claimed): two computeScore runs on the same input with the same key
\* return the same totalScore, components, proofLeaves and merkleRoot.
C4_Determinism ==
    [][(/\ bundle.status = "ok"
        /\ bundle'.status = "ok"
        /\ input' = input
        /\ indexerPrivateKey' = indexerPrivateKey)
       => (/\ bundle'.totalScore = bundle.totalScore
           /\ bundle'.components = bundle.components
           /\ bundle'.proofLeaves = bundle.proofLeaves
           /\ bundle'.merkleRoot = bundle.merkleRoot)]_vars

\* C4: a bundle was computed from a transaction event after the clock moved.
C4_RecomputedLater ==
    /\ bundle.status = "ok"
    /\ now = 250 * Day
    /\ bundle.components[3].score = Num(55)

CeilingsRespected(components) ==
    /\ Len(components) = 5
    /\ [i \in 1..5 |-> components[i].maxScore] = <<400, 250, 200, 100, 50>>
    /\ \A i \in 1..5 : RatLE(components[i].score, Num(components[i].maxScore))

TotalInRange(totalScore) ==
    RatLE(Num(0), totalScore) /\ RatLE(totalScore, Num(1000))

RepaymentScenario ==
    << Event("lending", 100 * Day, 1000, [NoMetadata EXCEPT !.action = "borrow"]),
       Event("lending", 120 * Day, 1000, [NoMetadata EXCEPT !.action = "repay", !.onTime = TRUE]),
       Event("lending", 130 * Day, 0, [NoMetadata EXCEPT !.action = "repay"]) >>

\* C6 (as claimed): the repayment scenario scores 400.
C6_RepaymentScenarioIs400 ==
    (input.events = RepaymentScenario /\ bundle.status = "ok") =>
        bundle.components[1].score = Num(400)

\* C6 (amended): the repayment scenario scores 350, the late repayment of
\* value 0 counting among the payments of the on-time ratio (1 of 2).
C6_RepaymentScenarioIs350 ==
    (input.events = RepaymentScenario /\ bundle.status = "ok") =>
        /\ bundle.components[1].name = "Repayment History"
        /\ bundle.components[1].score = Num(350)

\* C6: a bundle was computed for the repayment scenario.
C6_ScenarioScored ==
    input.events = RepaymentScenario /\ bundle.status = "ok"

\* The splits of events into a prefix and a non-empty suffix of risk events.
RiskSplits(events) ==
    {k \in 0..(Len(events) - 1) : \A j \in (k + 1)..Len(events) : events[j].type = "risk"}

\* C7: for every event list E and every list R of risk events, E \o R has a
\* total score no greater than E's and the same four other sub-scores.
C7_RiskIsSubtractive ==
    \A k \in RiskSplits(input.events) :
        \E with \in {computeComponents(input.events, now)} :
        \E without \in {computeComponents(SubSeq(input.events, 1, k), now)} :
            /\ RatLE(calculateTotalScore(with), calculateTotalScore(without))
            /\ \A i \in 1..4 : with[i].score = without[i].score

\* C7: a bundle whose total is strictly below that of its events without the
\* trailing risk event.
C7_RiskLoweredTotal ==
    /\ bundle.status = "ok"
    /\ Len(input.events) >= 2
    /\ (Len(input.events) - 1) \in RiskSplits(input.events)
    /\ ~RatLE(calculateTotalScore(computeComponents(
                  SubSeq(input.events, 1, Len(input.events) - 1), now)),
              bundle.totalScore)

C14_RootFailsOnlyOnEmpty ==
    /\ call.op = "generateRoot" =>
          /\ call.status = "error" <=> Len(leaves) = 0
          /\ call.status = "ok" => call.root # Undefined
    /\ ~ScoreIdle =>
          /\ bundle.status # "root_error"
          /\ bundle.status = "ok" =>
                (Len(bundle.proofLeaves) = 5 /\ bundle.merkleRoot # Undefined)

\* C14: generateRoot was applied to the empty list and failed.
C14_EmptyListRejected ==
    /\ call.op = "generateRoot"
    /\ Len(leaves) = 0
    /\ call.status = "error"

\* C15: when the signer fails, computeScore fails with the signer's error and
\* leaves no bundle (no score, no root, no signature), and no run of
\* computeScore calls the signer more than once.
C15_SigningFailureSurfaces ==
    /\ bundle.signerCalls <= 1
    /\ (bundle.status # "none" /\ indexerPrivateKey \notin WalletKeys) =>
          /\ bundle.status \in {"sign_error", "encode_error"}
          /\ bundle.status = "sign_error" <=> bundle.signerCalls = 1
          /\ bundle = [NoBundle EXCEPT !.status = bundle.status,
                                       !.signerCalls = bundle.signerCalls]
    /\ bundle.status = "sign_error" => indexerPrivateKey \notin WalletKeys

\* C15: computeScore ran on three events with a key the wallet rejects.
C15_SignerFailed ==
    /\ bundle.status = "sign_error"
    /\ indexerPrivateKey \in MalformedKeys
    /\ Len(input.events) = 3

\* ----------------------------------------------------- OnchainScoreRegistry

ZeroAddress == 0
ZeroBytes32 == <<-8>>

\* The address of the account that holds private key `key`.
addressOf(key) == 1000 + key

\* The deployer, the indexer (holder of the engine's key) and another
\* account that the owner never authorizes.
Owner == 1
IndexerKey == 11
StrangerKey == 12
Indexer == addressOf(IndexerKey)
Stranger == addressOf(StrangerKey)

\* What ECDSA.recover returns for a well-formed signature of another digest:
\* an address nobody holds the key of.
RecoveredElsewhere == 9999

KnownAddresses == {Owner, Indexer, Stranger, RecoveredElsewhere}

AnchorUsers == {4096, 4097}
AnchorRoots == {<<1>>, <<2>>}

MAX_ANCHOR_AGE == 7 * Day

\* keccak256(abi.encodePacked(user, merkleRoot, timestamp)): 20 + 32 + 32
\* bytes, where abi.encode pads the address to 32.
packedMessageHash(user, merkleRoot, timestamp) ==
    <<-4, user, timestamp>> \o merkleRoot

toEthSignedMessageHash(messageHash) == <<-5>> \o messageHash

\* wallet.signMessage(arrayify(messageHash)) with the key `key`.
signMessage(key, messageHash) == <<-3, key>> \o messageHash

\* ECDSA.recover(digest, signature): reverts unless the signature is 65
\* bytes long; returns the signer when the signature is one of `digest`.
recover(digest, signature) ==
    IF Len(signature) < 3
    THEN [status |-> "revert", signer |-> ZeroAddress]
    ELSE IF toEthSignedMessageHash(SubSeq(signature, 3, Len(signature))) = digest
    THEN [status |-> "ok", signer |-> addressOf(signature[2])]
    ELSE [status |-> "ok", signer |-> RecoveredElsewhere]

\* _verifyIndexerSignature accepting whatever address the signature recovers to.
verifyIndexerSignatureAnySigner(st, user, merkleRoot, timestamp, signature) ==
    LET messageHash == packedMessageHash(user, merkleRoot, timestamp)
        ethSignedMessageHash == toEthSignedMessageHash(messageHash)
        recovered == recover(ethSignedMessageHash, signature)
    IN  IF recovered.status = "revert" THEN "ECDSAInvalidSignatureLength"
        ELSE "ok"

\* _verifyIndexerSignature: "ok", or the reason of the revert.
verifyIndexerSignature(st, user, merkleRoot, timestamp, signature) ==
    LET messageHash == packedMessageHash(user, merkleRoot, timestamp)
        ethSignedMessageHash == toEthSignedMessageHash(messageHash)
        recovered == recover(ethSignedMessageHash, signature)
    IN  IF recovered.status = "revert" THEN "ECDSAInvalidSignatureLength"
        ELSE IF ~st.authorizedIndexers[recovered.signer] THEN "invalid signature"
        ELSE "ok"

\* modifier validTimestamp: "ok", or the reason of the revert (the
\* subtraction is checked: it panics when maxAnchorAge exceeds block.timestamp).
validTimestamp(st, blockTs, timestamp) ==
    IF timestamp > blockTs THEN "future timestamp"
    ELSE IF blockTs < st.maxAnchorAge THEN "panic"
    ELSE IF timestamp < blockTs - st.maxAnchorAge THEN "anchor too old"
    ELSE "ok"

Reverted(st, reason) == [status |-> "revert", reason |-> reason, registry |-> st]

\* A submission that writes only where no anchor is stored yet.
anchorOnce(st, user, merkleRoot, timestamp) ==
    [status |-> "ok", reason |-> "none",
     registry |-> IF st.anchorTimestamps[user] = 0
                  THEN [st EXCEPT !.latestAnchors[user] = merkleRoot,
                                  !.anchorTimestamps[user] = timestamp]
                  ELSE st]

\* The two storage writes of a submission.
anchor(st, user, merkleRoot, timestamp) ==
    [status |-> "ok", reason |-> "none",
     registry |-> [st EXCEPT !.latestAnchors[user] = merkleRoot,
                             !.anchorTimestamps[user] = timestamp]]

\* submitScore(user, merkleRoot, timestamp, indexerSig) sent by `sender` in
\* a block of time blockTs: the outcome and the storage after it.
submitScore(st, blockTs, sender, user, merkleRoot, timestamp, indexerSig) ==
    LET timely == validTimestamp(st, blockTs, timestamp)
        signed == IF st.authorizedIndexers[sender] THEN "ok"
                  ELSE verifyIndexerSignature(st, user, merkleRoot, timestamp, indexerSig)
    IN  IF timely # "ok" THEN Reverted(st, timely)
        ELSE IF user = ZeroAddress THEN Reverted(st, "invalid user")
        ELSE IF merkleRoot = ZeroBytes32 THEN Reverted(st, "invalid merkle root")
        ELSE IF signed # "ok" THEN Reverted(st, signed)
        ELSE anchor(st, user, merkleRoot, timestamp)

\* submitScoreDirect(user, merkleRoot, timestamp) sent by `sender`.
submitScoreDirect(st, blockTs, sender, user, merkleRoot, timestamp) ==
    LET timely == validTimestamp(st, blockTs, timestamp)
    IN  IF ~st.authorizedIndexers[sender] THEN Reverted(st, "unauthorized indexer")
        ELSE IF timely # "ok" THEN Reverted(st, timely)
        ELSE IF user = ZeroAddress THEN Reverted(st, "invalid user")
        ELSE IF merkleRoot = ZeroBytes32 THEN Reverted(st, "invalid merkle root")
        ELSE anchor(st, user, merkleRoot, timestamp)

getLatestAnchor(st, user) == <<st.latestAnchors[user], st.anchorTimestamps[user]>>

\* authorizeIndexer(indexer, authorized) sent by `sender`.
authorizeIndexer(st, sender, indexer, authorized) ==
    IF sender # Owner THEN Reverted(st, "OwnableUnauthorizedAccount")
    ELSE IF indexer = ZeroAddress THEN Reverted(st, "invalid indexer")
    ELSE [status |-> "ok", reason |-> "none",
          registry |-> [st EXCEPT !.authorizedIndexers[indexer] = authorized]]

\* setMaxAnchorAge(newMaxAge) sent by `sender`.
setMaxAnchorAge(st, sender, newMaxAge) ==
    IF sender # Owner THEN Reverted(st, "OwnableUnauthorizedAccount")
    ELSE IF newMaxAge > MAX_ANCHOR_AGE THEN Reverted(st, "age too high")
    ELSE [status |-> "ok", reason |-> "none",
          registry |-> [st EXCEPT !.maxAnchorAge = newMaxAge]]

\* ------------------------------- OnchainScoreRegistry as a state machine
\* Init is the contract after deployment by Owner.  Each transaction is one
\* action: it runs to its end or reverts, lastTx records it with its
\* outcome, and the next transaction follows once the receipt is taken.

HalfDay == 12 * 60 * 60

\* block.timestamp at deployment.
Genesis == 200 * Day

NoTx ==
    [fn |-> "none", sender |-> ZeroAddress, user |-> ZeroAddress,
     merkleRoot |-> ZeroBytes32, timestamp |-> 0, indexerSig |-> <<>>,
     authorized |-> FALSE, newMaxAge |-> 0, amount |-> 0, threshold |-> 0,
     proof |-> <<>>, loanIndex |-> 0, status |-> "none", reason |-> "none",
     event |-> "none"]

NoAnchor == [merkleRoot |-> ZeroBytes32, timestamp |-> 0]

RegistryInit ==
    /\ registry = [authorizedIndexers |-> [a \in KnownAddresses |-> FALSE],
                   latestAnchors |-> [u \in AnchorUsers |-> ZeroBytes32],
                   anchorTimestamps |-> [u \in AnchorUsers |-> 0],
                   maxAnchorAge |-> Day]
    /\ blockTimestamp = Genesis
    /\ lastTx = NoTx
    /\ anchored = [u \in AnchorUsers |-> NoAnchor]
    /\ leaves = <<>>
    /\ call = NoCall
    /\ ScoreIdle
    /\ LenderIdle
    /\ PollerIdle

\* Timestamps a submitter may put in a transaction mined at blockTs: two
\* days old, half a day old, current, one day ahead.
SubmittedTimestamps(blockTs) ==
    {blockTs - 2 * Day, blockTs - HalfDay, blockTs, blockTs + Day}

\* Signatures a submitter may attach to (user, merkleRoot, timestamp): none
\* ("0x"); the indexer's as the engine's signScoreBundle produces it; the
\* indexer's over the packed encoding; the indexer's over the packed
\* encoding of another root; a stranger's over the packed encoding.
SubmittedSignatures(user, merkleRoot, timestamp) ==
    { <<>>,
      signScoreBundle(IndexerKey, user, merkleRoot, timestamp).signature,
      signMessage(IndexerKey, packedMessageHash(user, merkleRoot, timestamp)),
      signMessage(IndexerKey, packedMessageHash(user, <<3>>, timestamp)),
      signMessage(StrangerKey, packedMessageHash(user, merkleRoot, timestamp)) }

Senders == {Indexer, Stranger}

\* The (user, merkleRoot) pairs submitted: every user with every root, and
\* one pair each with the zero address and the zero root.
SubmittedPairs ==
    (AnchorUsers \X AnchorRoots)
        \cup {<<ZeroAddress, <<1>>>>, <<4096, ZeroBytes32>>}

\* The indexer submits with an empty signature, as it does when it is the
\* sender; any other sender attaches one of SubmittedSignatures.
SignaturesFrom(sender, user, merkleRoot, timestamp) ==
    IF sender = Indexer THEN {<<>>}
    ELSE SubmittedSignatures(user, merkleRoot, timestamp)

\* The history after a submission: the submitted pair if it succeeded.
noted(r, user, merkleRoot, timestamp) ==
    IF r.status = "ok"
    THEN [anchored EXCEPT ![user] = [merkleRoot |-> merkleRoot, timestamp |-> timestamp]]
    ELSE anchored

SubmitScore(sender, user, merkleRoot, timestamp, indexerSig) ==
    /\ lastTx.fn = "none"
    /\ \E r \in {submitScore(registry, blockTimestamp, sender, user, merkleRoot,
                               timestamp, indexerSig)} :
         /\ registry' = r.registry
         /\ lastTx' = [NoTx EXCEPT !.fn = "submitScore", !.sender = sender,
                                   !.user = user, !.merkleRoot = merkleRoot,
                                   !.timestamp = timestamp, !.indexerSig = indexerSig,
                                   !.status = r.status, !.reason = r.reason,
                                   !.event = IF r.status = "ok" THEN "ScoreAnchored"
                                                                ELSE "none"]
         /\ anchored' = noted(r, user, merkleRoot, timestamp)
    /\ UNCHANGED <<lenderVars, pollerVars, leaves, call, scoreVars, blockTimestamp>>

SubmitScoreDirect(sender, user, merkleRoot, timestamp) ==
    /\ lastTx.fn = "none"
    /\ \E r \in {submitScoreDirect(registry, blockTimestamp, sender, user, merkleRoot,
                                     timestamp)} :
         /\ registry' = r.registry
         /\ lastTx' = [NoTx EXCEPT !.fn = "submitScoreDirect", !.sender = sender,
                                   !.user = user, !.merkleRoot = merkleRoot,
                                   !.timestamp = timestamp,
                                   !.status = r.status, !.reason = r.reason,
                                   !.event = IF r.status = "ok" THEN "ScoreAnchored"
                                                                ELSE "none"]
         /\ anchored' = noted(r, user, merkleRoot, timestamp)
    /\ UNCHANGED <<lenderVars, pollerVars, leaves, call, scoreVars, blockTimestamp>>

AuthorizeIndexer(sender, indexer, authorized) ==
    /\ lastTx.fn = "none"
    /\ \E r \in {authorizeIndexer(registry, sender, indexer, authorized)} :
         /\ registry' = r.registry
         /\ lastTx' = [NoTx EXCEPT !.fn = "authorizeIndexer", !.sender = sender,
                                   !.user = indexer, !.authorized = authorized,
                                   !.status = r.status, !.reason = r.reason,
                                   !.event = IF r.status = "ok" THEN "IndexerAuthorized"
                                                                ELSE "none"]
    /\ UNCHANGED <<lenderVars, pollerVars, leaves, call, scoreVars, blockTimestamp, anchored>>

SetMaxAnchorAge(sender, newMaxAge) ==
    /\ lastTx.fn = "none"
    /\ \E r \in {setMaxAnchorAge(registry, sender, newMaxAge)} :
         /\ registry' = r.registry
         /\ lastTx' = [NoTx EXCEPT !.fn = "setMaxAnchorAge", !.sender = sender,
                                   !.newMaxAge = newMaxAge,
                                   !.status = r.status, !.reason = r.reason,
                                   !.event = IF r.status = "ok" THEN "MaxAnchorAgeUpdated"
                                                                ELSE "none"]
    /\ UNCHANGED <<lenderVars, pollerVars, leaves, call, scoreVars, blockTimestamp, anchored>>

\* The sender has read the receipt; the next transaction may follow.
TakeReceipt ==
    /\ lastTx.fn # "none"
    /\ lastTx' = NoTx
    /\ UNCHANGED <<lenderVars, pollerVars, leaves, call, scoreVars, registry, blockTimestamp, anchored>>

\* Half a day passes on the chain.
AdvanceTime ==
    /\ lastTx.fn = "none"
    /\ blockTimestamp < Genesis + MaxBlockSteps * HalfDay
    /\ blockTimestamp' = blockTimestamp + HalfDay
    /\ UNCHANGED <<lenderVars, pollerVars, leaves, call, scoreVars, registry, lastTx, anchored>>

RegistryNext ==
    \/ \E sender \in Senders, pair \in SubmittedPairs,
          timestamp \in SubmittedTimestamps(blockTimestamp) :
          \E indexerSig \in SignaturesFrom(sender, pair[1], pair[2], timestamp) :
            SubmitScore(sender, pair[1], pair[2], timestamp, indexerSig)
    \/ \E sender \in Senders, pair \in SubmittedPairs,
          timestamp \in SubmittedTimestamps(blockTimestamp) :
          SubmitScoreDirect(sender, pair[1], pair[2], timestamp)
    \/ \E sender \in {Owner, Stranger}, indexer \in {Indexer, ZeroAddress},
          authorized \in BOOLEAN :
          AuthorizeIndexer(sender, indexer, authorized)
    \/ \E sender \in {Owner, Stranger}, newMaxAge \in {0, MAX_ANCHOR_AGE + Day} :
          SetMaxAnchorAge(sender, newMaxAge)
    \/ TakeReceipt
    \/ AdvanceTime

RegistrySpec == RegistryInit /\ [][RegistryNext]_vars

\* ----------------------------------------------- OnchainScoreRegistry: claims

\* The signature signScoreBundle produces with the indexer's key.
EngineSignature(user, merkleRoot, timestamp) ==
    signScoreBundle(IndexerKey, user, merkleRoot, timestamp).signature

\* C16 (as claimed): a submitScore from a sender that is not an authorized
\* indexer, carrying the signature signScoreBundle produces with the key of
\* an authorized indexer over (user, merkleRoot, timestamp), with a valid
\* user, root and timestamp, succeeds and anchors (merkleRoot, timestamp).
C16_EngineSignatureAccepted ==
    ( /\ lastTx.fn = "submitScore"
      /\ ~registry.authorizedIndexers[lastTx.sender]
      /\ registry.authorizedIndexers[Indexer]
      /\ lastTx.user # ZeroAddress
      /\ lastTx.merkleRoot # ZeroBytes32
      /\ validTimestamp(registry, blockTimestamp, lastTx.timestamp) = "ok"
      /\ lastTx.indexerSig =
            EngineSignature(lastTx.user, lastTx.merkleRoot, lastTx.timestamp) )
    => ( /\ lastTx.status = "ok"
         /\ getLatestAnchor(registry, lastTx.user)
               = <<lastTx.merkleRoot, lastTx.timestamp>> )

\* C16: a stranger submitted the engine's signature of (4096, <<1>>, now)
\* while the indexer was authorized.
C16_EngineSignatureSubmitted ==
    /\ lastTx.fn = "submitScore"
    /\ lastTx.sender = Stranger
    /\ registry.authorizedIndexers[Indexer]
    /\ lastTx.user = 4096
    /\ lastTx.merkleRoot = <<1>>
    /\ lastTx.timestamp = blockTimestamp
    /\ lastTx.indexerSig = EngineSignature(4096, <<1>>, blockTimestamp)

\* The transaction carries the signature the contract checks for, made by
\* an indexer who is authorized in storage st.
SignedByAuthorized(tx, st) ==
    \E key \in {IndexerKey, StrangerKey} :
        /\ st.authorizedIndexers[addressOf(key)]
        /\ tx.indexerSig =
              signMessage(key, packedMessageHash(tx.user, tx.merkleRoot, tx.timestamp))

\* C17: a submitScore whose sender is not an authorized indexer and which
\* carries no signature of a currently authorized indexer over exactly its
\* (user, merkleRoot, timestamp), and a submitScoreDirect whose sender is
\* not an authorized indexer, revert and leave the storage as it was;
\* an indexer whose authorization was revoked counts as not authorized.
C17_UnauthorizedChangesNothing ==
    [][ ( /\ lastTx'.fn \in {"submitScore", "submitScoreDirect"}
          /\ ~registry.authorizedIndexers[lastTx'.sender]
          /\ (lastTx'.fn = "submitScoreDirect" \/ ~SignedByAuthorized(lastTx', registry)) )
        => ( /\ lastTx'.status = "revert"
             /\ lastTx'.event = "none"
             /\ registry' = registry
             /\ anchored' = anchored ) ]_vars

\* C17: a stranger submitted the packed signature of the indexer after the
\* indexer's authorization was revoked, a user having an anchor already.
C17_RevokedIndexerRejected ==
    /\ lastTx.fn = "submitScore"
    /\ lastTx.sender = Stranger
    /\ lastTx.user = 4096
    /\ lastTx.indexerSig =
          signMessage(IndexerKey,
                      packedMessageHash(4096, lastTx.merkleRoot, lastTx.timestamp))
    /\ lastTx.timestamp = blockTimestamp
    /\ lastTx.merkleRoot = <<2>>
    /\ ~registry.authorizedIndexers[Indexer]
    /\ registry.latestAnchors[4096] = <<1>>
    /\ lastTx.reason = "invalid signature"

\* C18: getLatestAnchor(user) is the (merkleRoot, timestamp) of the last
\* submitScore or submitScoreDirect that succeeded for that user, whatever
\* was submitted for other users, and (0, 0) if none succeeded.
C18_LatestAnchorWins ==
    \A user \in AnchorUsers :
        getLatestAnchor(registry, user)
            = <<anchored[user].merkleRoot, anchored[user].timestamp>>

\* C18: a submission for one user succeeded with a root and a timestamp
\* other than those the other user is anchored with, after time had passed.
C18_AnchorOverwritten ==
    /\ lastTx.fn = "submitScoreDirect"
    /\ lastTx.status = "ok"
    /\ lastTx.user = 4096
    /\ lastTx.merkleRoot = <<1>>
    /\ lastTx.timestamp = Genesis + 2 * HalfDay
    /\ registry.latestAnchors[4097] = <<2>>
    /\ registry.anchorTimestamps[4097] = Genesis

\* C19 (as claimed): a submitScore of an authorized indexer with a valid
\* user and root and a timestamp later than block.timestamp succeeds, emits
\* ScoreAnchored and stores that timestamp.
C19_FutureTimestampAccepted ==
    ( /\ lastTx.fn = "submitScore"
      /\ registry.authorizedIndexers[lastTx.sender]
      /\ lastTx.user # ZeroAddress
      /\ lastTx.merkleRoot # ZeroBytes32
      /\ lastTx.timestamp > blockTimestamp )
    => ( /\ lastTx.status = "ok"
         /\ lastTx.event = "ScoreAnchored"
         /\ registry.anchorTimestamps[lastTx.user] = lastTx.timestamp )

\* C19: the authorized indexer submitted a timestamp one day ahead.
C19_FutureTimestampSubmitted ==
    /\ lastTx.fn = "submitScore"
    /\ lastTx.sender = Indexer
    /\ registry.authorizedIndexers[Indexer]
    /\ lastTx.user = 4096
    /\ lastTx.merkleRoot = <<1>>
    /\ lastTx.timestamp = blockTimestamp + Day

\* C20 (as claimed): no transaction lowers the anchor timestamp stored for
\* a user.
C20_AnchorTimestampMonotone ==
    [][ \A user \in AnchorUsers :
          registry'.anchorTimestamps[user] >= registry.anchorTimestamps[user] ]_vars

\* ------------------------------------------- MerkleTree: the built tree

\* The tree generateRoot and generateProof build for ls.
builtTree(ls) == buildTree(padLeaves(ls))

TreeBuilt == call.op \in {"generateRoot", "generateProof"} /\ Len(leaves) >= 2

\* C22 (as claimed): every level of the built tree other than level 0 and
\* the root level has an even number of nodes.
C22_InnerLevelsEven ==
    TreeBuilt =>
        \A level \in 1..(Len(builtTree(leaves)) - 2) :
            Len(At(builtTree(leaves), level)) % 2 = 0

\* C22 (amended): level 0 of the built tree has an even number of nodes,
\* every level above has half the nodes of the level below, rounded up, and
\* the last level has one node.
C22_LevelsHalveRoundingUp ==
    TreeBuilt =>
        \E tree \in {builtTree(leaves)} :
            /\ Len(At(tree, 0)) % 2 = 0
            /\ \A level \in 1..(Len(tree) - 1) :
                  Len(At(tree, level)) = (Len(At(tree, level - 1)) + 1) \div 2
            /\ Len(At(tree, Len(tree) - 1)) = 1

\* C22: a tree was built for five leaves (its level 1 has three nodes).
C22_OddLevelBuilt ==
    /\ call.op = "generateRoot"
    /\ Len(leaves) = 5
    /\ Len(At(builtTree(leaves), 1)) = 3

\* C23 (as claimed): for a list of at least two leaves and a valid index,
\* generateProof returns one (sibling, bit) entry per level below the root:
\* the sibling is the node at position (index XOR 1), or the node itself
\* when it is the unpaired last node of its level, and the bit is 1 exactly
\* when the position of the node in its level is odd.
C23_OneEntryPerLevel ==
    ( /\ call.op = "generateProof"
      /\ Len(leaves) >= 2
      /\ call.index >= 0 /\ call.index < Len(leaves) )
    => \E tree \in {builtTree(leaves)} :
       \E expected \in {pathAbove(tree, 0, call.index, EmptyProof)} :
         /\ call.status = "ok"
         /\ Len(call.siblings) = Len(tree) - 1
         /\ Len(call.indices) = Len(tree) - 1
         /\ call.siblings = expected.siblings
         /\ call.indices = expected.indices

\* C23: the proof of the last of five leaves was generated.
C23_LastOfFiveProved ==
    /\ call.op = "generateProof"
    /\ Len(leaves) = 5
    /\ call.index = 4
    /\ call.status = "ok"

\* keccak256(abi.encode(left, right)), written out.
pairHash(left, right) == <<0>> \o left \o right

\* The reduction of a level to one node: adjacent pairs are hashed left
\* before right, an unpaired last node with a copy of itself.
RECURSIVE referenceRoot(_)
referenceRoot(level) ==
    IF Len(level) = 1 THEN level[1]
    ELSE referenceRoot([k \in 1..((Len(level) + 1) \div 2) |->
                           IF 2 * k <= Len(level)
                           THEN pairHash(level[2 * k - 1], level[2 * k])
                           ELSE pairHash(level[2 * k - 1], level[2 * k - 1])])

\* ls with the leaves at positions i and i + 1 (1-based) exchanged.
swapAdjacent(ls, i) ==
    [k \in 1..Len(ls) |-> IF k = i THEN ls[i + 1] ELSE IF k = i + 1 THEN ls[i] ELSE ls[k]]

\* C24: for a list of at least two leaves, generateRoot is the reference
\* reduction of the list; every node above level 0 of the built tree is the
\* hash of its left and right child (of its only child twice, if unpaired);
\* exchanging two different adjacent leaves gives another root.
C24_RootIsReferenceReduction ==
    (call.op = "generateRoot" /\ Len(leaves) >= 2) =>
        \E tree \in {builtTree(leaves)} :
            /\ call.status = "ok"
            /\ call.root = referenceRoot(leaves)
            /\ \A level \in 1..(Len(tree) - 1) :
                  \A k \in 0..(Len(At(tree, level)) - 1) :
                     LET below == At(tree, level - 1)
                         left == At(below, 2 * k)
                         right == IF 2 * k + 1 < Len(below) THEN At(below, 2 * k + 1)
                                                           ELSE left
                     IN  At(At(tree, level), k) = pairHash(left, right)
            /\ \A i \in 1..(Len(leaves) - 1) :
                  leaves[i] # leaves[i + 1] =>
                      generateRoot(swapAdjacent(leaves, i)).root # call.root

\* C24: generateRoot was applied to five leaves, the first two different.
C24_FiveLeavesReduced ==
    /\ call.op = "generateRoot"
    /\ call.status = "ok"
    /\ Len(leaves) = 5
    /\ leaves[1] # leaves[2]

\* ------------------------------------ CreditScoreEngine: aggregation, staking

Reverse(seq) == [k \in 1..Len(seq) |-> seq[Len(seq) + 1 - k]]

\* The components with their weight and reason fields replaced.
Relabelled(components) ==
    [k \in 1..Len(components) |->
        [components[k] EXCEPT !.weight = Num(0), !.reason = "none"]]

RECURSIVE withoutOtherStakingActions(_)
withoutOtherStakingActions(events) ==
    IF Len(events) = 0 THEN <<>>
    ELSE LET rest == withoutOtherStakingActions(Tail(events))
         IN  IF Head(events).type = "staking" /\ Head(events).metadata.action # "stake"
             THEN rest ELSE <<Head(events)>> \o rest

\* C26 (as claimed): the staking sub-score of an event list is that of the
\* list without its staking events whose action is not "stake".
C26_StakingIgnoresOtherActions ==
    bundle.status = "ok" =>
        bundle.components[2].score
            = computeStakingScore(withoutOtherStakingActions(input.events))

\* C26: a bundle was computed from a stake and an unstake.
C26_StakeAndUnstakeScored ==
    /\ bundle.status = "ok"
    /\ Len(input.events) = 2
    /\ input.events[1].type = "staking" /\ input.events[1].metadata.action = "stake"
    /\ input.events[2].type = "staking" /\ input.events[2].metadata.action = "unstake"

\* ------------------------------------------ ScoreVerifier and LenderAdapter
\* Amounts are counted in units of 0.01 ether.

\* ScoreVerifier.verifyScoreProof: the stub accepts every proof whose
\* arguments pass its three require statements, and reverts otherwise.
verifyScoreProof(proof, merkleRoot, threshold) ==
    IF Len(proof) = 0 THEN [status |-> "revert", reason |-> "empty proof", valid |-> FALSE]
    ELSE IF merkleRoot = ZeroBytes32
    THEN [status |-> "revert", reason |-> "invalid merkle root", valid |-> FALSE]
    ELSE IF threshold <= 0
    THEN [status |-> "revert", reason |-> "invalid threshold", valid |-> FALSE]
    ELSE [status |-> "ok", reason |-> "none", valid |-> TRUE]

\* hasRecentAnchor that only asks for an anchor, whatever its age.
hasRecentAnchorOfAnyAge(st, blockTs, user) ==
    [status |-> "ok", recent |-> st.anchorTimestamps[user] > 0]

\* OnchainScoreRegistry.hasRecentAnchor(user) in a block of time blockTs; the
\* subtraction is checked and is evaluated only when the timestamp is set.
hasRecentAnchor(st, blockTs, user) ==
    LET timestamp == st.anchorTimestamps[user]
    IN  IF timestamp <= 0 THEN [status |-> "ok", recent |-> FALSE]
        ELSE IF blockTs < st.maxAnchorAge THEN [status |-> "revert", recent |-> FALSE]
        ELSE [status |-> "ok", recent |-> timestamp >= blockTs - st.maxAnchorAge]

\* keccak256(abi.encodePacked(proof, merkleRoot, threshold))
proofHashOf(proof, merkleRoot, threshold) ==
    <<-9, threshold, Len(proof)>> \o proof \o merkleRoot

\* Processing that forgets the proof.
markProcessedNever(processedProofs, proofHash) == processedProofs

\* processedProofs[proofHash] = true
markProcessed(processedProofs, proofHash) == processedProofs \cup {proofHash}

LoanReverted(ld, reason) == [status |-> "revert", reason |-> reason, lending |-> ld]

\* requestLoan(borrower, amount, threshold, proof, merkleRoot) sent by
\* `sender` in a block of time blockTs, the registry's storage being st.
requestLoan(ld, st, blockTs, sender, borrower, amount, threshold, proof, merkleRoot) ==
    LET proofHash == proofHashOf(proof, merkleRoot, threshold)
        verified == verifyScoreProof(proof, merkleRoot, threshold)
        hasRecent == hasRecentAnchor(st, blockTs, borrower)
        newLoan == [borrower |-> borrower, amount |-> amount, threshold |-> threshold,
                    timestamp |-> blockTs, approved |-> TRUE, repaid |-> FALSE]
    IN  IF amount < ld.minLoanAmount THEN LoanReverted(ld, "amount too low")
        ELSE IF amount > ld.maxLoanAmount THEN LoanReverted(ld, "amount too high")
        ELSE IF threshold < ld.minScoreThreshold THEN LoanReverted(ld, "threshold too low")
        ELSE IF threshold > 1000 THEN LoanReverted(ld, "threshold too high")
        ELSE IF borrower = ZeroAddress THEN LoanReverted(ld, "invalid borrower")
        ELSE IF borrower # sender THEN LoanReverted(ld, "only borrower can request")
        ELSE IF proofHash \in ld.processedProofs
        THEN LoanReverted(ld, "proof already processed")
        ELSE IF verified.status = "revert" THEN LoanReverted(ld, verified.reason)
        ELSE IF ~verified.valid THEN LoanReverted(ld, "invalid proof")
        ELSE IF hasRecent.status = "revert" THEN LoanReverted(ld, "panic")
        ELSE IF ~hasRecent.recent THEN LoanReverted(ld, "no recent score anchor")
        ELSE [status |-> "ok", reason |-> "none",
              lending |-> [ld EXCEPT
                  !.processedProofs = markProcessed(ld.processedProofs, proofHash),
                  !.userLoans[borrower] = Append(ld.userLoans[borrower], newLoan)]]

\* repayLoan(loanIndex) sent by `sender`.
repayLoan(ld, sender, loanIndex) ==
    IF loanIndex >= Len(ld.userLoans[sender]) THEN LoanReverted(ld, "invalid loan index")
    ELSE IF At(ld.userLoans[sender], loanIndex).repaid
    THEN LoanReverted(ld, "loan already repaid")
    ELSE IF ~At(ld.userLoans[sender], loanIndex).approved
    THEN LoanReverted(ld, "loan not approved")
    ELSE [status |-> "ok", reason |-> "none",
          lending |-> [ld EXCEPT !.userLoans[sender][loanIndex + 1].repaid = TRUE]]

\* The loop of isEligibleForLoan: the loans of the list that are not repaid.
RECURSIVE outstandingCount(_)
outstandingCount(loans) ==
    IF Len(loans) = 0 THEN 0
    ELSE (IF Head(loans).repaid THEN 0 ELSE 1) + outstandingCount(Tail(loans))

\* isEligibleForLoan(user, threshold); a revert of the registry's view
\* reads as not eligible.
isEligibleForLoan(ld, st, blockTs, user, threshold) ==
    LET hasRecent == hasRecentAnchor(st, blockTs, user)
    IN  IF hasRecent.status = "revert" \/ ~hasRecent.recent THEN FALSE
        ELSE IF threshold < ld.minScoreThreshold THEN FALSE
        ELSE outstandingCount(ld.userLoans[user]) < 3

\* ----------------------------------------- LenderAdapter as a state machine
\* Init is the adapter deployed beside a registry whose owner has authorized
\* the indexer and set maxAnchorAge to one day, and in which the first
\* borrower was anchored half a day before.  The indexer anchors at the current block time; borrowers
\* request and repay; time advances by half days.

Borrowers == AnchorUsers
LoanProofs == {<<1>>, <<2>>}

LenderInit ==
    /\ registry = [authorizedIndexers |-> [a \in KnownAddresses |-> a = Indexer],
                   latestAnchors |-> [u \in AnchorUsers |->
                                         IF u = 4096 THEN <<1>> ELSE ZeroBytes32],
                   anchorTimestamps |-> [u \in AnchorUsers |->
                                            IF u = 4096 THEN Genesis - HalfDay ELSE 0],
                   maxAnchorAge |-> Day]
    /\ blockTimestamp = Genesis
    /\ lastTx = NoTx
    /\ anchored = [u \in AnchorUsers |->
                      IF u = 4096 THEN [merkleRoot |-> <<1>>, timestamp |-> Genesis - HalfDay]
                                  ELSE NoAnchor]
    /\ lending = [userLoans |-> [u \in Borrowers |-> <<>>],
                  processedProofs |-> {},
                  lender |-> Owner,
                  minLoanAmount |-> 1, maxLoanAmount |-> 1000,
                  minScoreThreshold |-> 700]
    /\ approvals = [h \in {} |-> 0]
    /\ leaves = <<>>
    /\ call = NoCall
    /\ ScoreIdle
    /\ PollerIdle

\* The history after a request: one more loan for the hash if it succeeded.
counted(r, proofHash) ==
    IF r.status # "ok" THEN approvals
    ELSE [h \in DOMAIN approvals \cup {proofHash} |->
             IF h = proofHash
             THEN (IF h \in DOMAIN approvals THEN approvals[h] ELSE 0) + 1
             ELSE approvals[h]]

RequestLoan(sender, borrower, amount, threshold, proof, merkleRoot) ==
    /\ lastTx.fn = "none"
    /\ \E r \in {requestLoan(lending, registry, blockTimestamp, sender, borrower,
                               amount, threshold, proof, merkleRoot)} :
         /\ lending' = r.lending
         /\ lastTx' = [NoTx EXCEPT !.fn = "requestLoan", !.sender = sender,
                                   !.user = borrower, !.merkleRoot = merkleRoot,
                                   !.amount = amount, !.threshold = threshold,
                                   !.proof = proof,
                                   !.status = r.status, !.reason = r.reason,
                                   !.event = IF r.status = "ok" THEN "LoanApproved"
                                                                ELSE "none"]
         /\ approvals' = counted(r, proofHashOf(proof, merkleRoot, threshold))
    /\ UNCHANGED <<pollerVars, leaves, call, scoreVars, registry, blockTimestamp, anchored>>

RepayLoan(sender, loanIndex) ==
    /\ lastTx.fn = "none"
    /\ \E r \in {repayLoan(lending, sender, loanIndex)} :
         /\ lending' = r.lending
         /\ lastTx' = [NoTx EXCEPT !.fn = "repayLoan", !.sender = sender,
                                   !.user = sender, !.loanIndex = loanIndex,
                                   !.status = r.status, !.reason = r.reason,
                                   !.event = IF r.status = "ok" THEN "LoanRepaid"
                                                                ELSE "none"]
    /\ UNCHANGED <<pollerVars, leaves, call, scoreVars, registry, blockTimestamp,
                   anchored, approvals>>

\* The requests sent: the first borrower with every proof and root at a
\* valid amount and threshold, the second borrower with one valid request,
\* and one request for each way of being invalid.
LoanRequests ==
    { [sender |-> 4096, borrower |-> 4096, amount |-> 1, threshold |-> 700,
       proof |-> p, merkleRoot |-> r] : p \in LoanProofs, r \in AnchorRoots }
    \cup
    { [sender |-> 4097, borrower |-> 4097, amount |-> 1, threshold |-> 700,
       proof |-> <<2>>, merkleRoot |-> <<2>>] }
    \cup
    { [sender |-> 4096, borrower |-> 4096, amount |-> a, threshold |-> t,
       proof |-> p, merkleRoot |-> r] :
         <<a, t, p, r>> \in { <<0, 700, <<1>>, <<1>>>>, <<1001, 700, <<1>>, <<1>>>>,
                              <<1, 699, <<1>>, <<1>>>>, <<1, 1001, <<1>>, <<1>>>>,
                              <<1, 700, <<>>, <<1>>>>, <<1, 700, <<1>>, ZeroBytes32>> } }
    \cup
    { [sender |-> 4097, borrower |-> b, amount |-> 1, threshold |-> 700,
       proof |-> <<1>>, merkleRoot |-> <<1>>] : b \in {4096, ZeroAddress} }

LenderNext ==
    \/ \E q \in LoanRequests :
          RequestLoan(q.sender, q.borrower, q.amount, q.threshold, q.proof, q.merkleRoot)
    \/ \E loanIndex \in 0..1 : RepayLoan(4096, loanIndex)
    \/ \E user \in AnchorUsers :
          SubmitScoreDirect(Indexer, user, IF user = 4096 THEN <<1>> ELSE <<2>>,
                            blockTimestamp)
    \/ TakeReceipt
    \/ AdvanceTime

LenderSpec == LenderInit /\ [][LenderNext]_vars

\* ------------------------------------------------- LenderAdapter properties

\* The loans of a borrower that are approved and not repaid.
outstanding(ld, b) ==
    Cardinality({i \in 1..Len(ld.userLoans[b]) :
                    ld.userLoans[b][i].approved /\ ~ld.userLoans[b][i].repaid})

\* The step is a requestLoan transaction.
RequestStep == lastTx.fn = "none" /\ lastTx'.fn = "requestLoan"

\* C21: requestLoan records a loan only if, in that call, the verifier
\* returned true for (proof, merkleRoot, threshold) and the borrower's anchor
\* has a non-zero timestamp no older than maxAnchorAge at the block time; and
\* once the block time exceeds the anchor's timestamp + maxAnchorAge every
\* requestLoan for that borrower reverts and records nothing.
C21_ApprovalNeedsFreshAnchor ==
    [][RequestStep =>
        LET q == lastTx'
            known == q.user \in AnchorUsers
            ts == registry.anchorTimestamps[q.user]
        IN  /\ lending' # lending =>
                  /\ q.status = "ok"
                  /\ Len(q.proof) > 0 /\ q.merkleRoot # ZeroBytes32 /\ q.threshold > 0
                  /\ known /\ ts > 0
                  /\ blockTimestamp <= ts + registry.maxAnchorAge
                  /\ Len(lending'.userLoans[q.user]) = Len(lending.userLoans[q.user]) + 1
            /\ known /\ blockTimestamp > ts + registry.maxAnchorAge =>
                  q.status = "revert" /\ lending' = lending]_vars

\* A borrower who already holds a loan is refused once the anchor is stale.
C21_StaleAnchorRejected ==
    /\ lastTx.fn = "requestLoan" /\ lastTx.user = 4096
    /\ lastTx.status = "revert" /\ lastTx.reason = "no recent score anchor"
    /\ registry.anchorTimestamps[4096] > 0
    /\ blockTimestamp > registry.anchorTimestamps[4096] + registry.maxAnchorAge
    /\ Len(lending.userLoans[4096]) > 0

\* C27: at most one loan is ever recorded for a (proof, merkleRoot,
\* threshold) triple, a second request with the same triple reverts, and a
\* reverted requestLoan leaves userLoans and processedProofs unchanged.
C27_ProofUsableOnce ==
    [][RequestStep =>
        LET q == lastTx'
            h == proofHashOf(q.proof, q.merkleRoot, q.threshold)
        IN  /\ \A k \in DOMAIN approvals' : approvals'[k] <= 1
            /\ h \in DOMAIN approvals => q.status = "revert"
            /\ q.status = "revert" =>
                  /\ lending'.userLoans = lending.userLoans
                  /\ lending'.processedProofs = lending.processedProofs]_vars

\* A triple that earned a loan is presented again and refused.
C27_ProofReplayed ==
    /\ lastTx.fn = "requestLoan" /\ lastTx.status = "revert"
    /\ lastTx.reason = "proof already processed"
    /\ proofHashOf(lastTx.proof, lastTx.merkleRoot, lastTx.threshold) \in DOMAIN approvals

\* C28: no borrower ever has more than 3 loans approved and not repaid, and
\* a borrower for whom isEligibleForLoan returns false obtains no new loan.
C28_OutstandingLimit ==
    [][/\ \A b \in Borrowers : outstanding(lending', b) <= 3
       /\ RequestStep /\ lastTx'.status = "ok" =>
             isEligibleForLoan(lending, registry, blockTimestamp,
                               lastTx'.user, lastTx'.threshold)]_vars

\* A fourth loan is approved while three are outstanding.
C28_FourthLoanApproved ==
    /\ lastTx.fn = "requestLoan" /\ lastTx.status = "ok" /\ lastTx.user = 4096
    /\ outstanding(lending, 4096) = 4

\* C29: every loan recorded by requestLoan was approved with a merkleRoot
\* equal to the borrower's latest anchored root at the time of the call.
C29_LoanBoundToAnchoredRoot ==
    [][RequestStep /\ lastTx'.status = "ok" =>
          lastTx'.merkleRoot = getLatestAnchor(registry, lastTx'.user)[1]]_vars

\* A loan is approved on a root that was never anchored for the borrower.
C29_ForeignRootApproved ==
    /\ lastTx.fn = "requestLoan" /\ lastTx.status = "ok" /\ lastTx.user = 4096
    /\ lastTx.merkleRoot = <<2>>
    /\ registry.latestAnchors[4096] = <<1>>
    /\ Len(lending.userLoans[4096]) > 0

\* ---------------------------------------------- RPCIndexer: event storage
\* poller is the indexer object: whether DATABASE_URL is set, whether
\* this.db is set, and where initializeDatabase stands ("none" when it had
\* nothing to do, "pending" while its CREATE TABLE query is awaited, then
\* "ok" or "failed").  store is what lies outside the object: the rows of
\* canonical_events, the files written, the events that reached neither,
\* and a record of the last saveEvents call.

\* The constructor calls initializeDatabase without awaiting it: the call
\* runs to its first await, having assigned this.db when DATABASE_URL is set.
initializeDatabaseStart(databaseUrl) ==
    [databaseUrl |-> databaseUrl, db |-> databaseUrl,
     init |-> IF databaseUrl THEN "pending" ELSE "none"]

\* The awaited query settles: it resolves, or it rejects and the catch block
\* logs the failure.  Neither branch assigns this.db.
initializeDatabaseSettle(p, resolved) ==
    [p EXCEPT !.init = IF resolved THEN "ok" ELSE "failed"]

\* saveEvents(walletAddress, events) when the database serves `served`
\* INSERT queries before rejecting one: the rows inserted, the files
\* written, the number of queries attempted and whether the call raised.
saveEvents(p, st, events, served) ==
    IF p.db
    THEN LET raised == served < Len(events)
             inserted == IF raised THEN served ELSE Len(events)
         IN  [path |-> "database", raised |-> raised,
              attempts |-> IF raised THEN inserted + 1 ELSE inserted,
              rows |-> st.rows \o SubSeq(events, 1, inserted),
              files |-> st.files,
              kept |-> inserted]
    ELSE [path |-> "file", raised |-> FALSE, attempts |-> 0,
          rows |-> st.rows,
          files |-> Append(st.files, events),
          kept |-> Len(events)]

NoSave == [path |-> "none", init |-> "none", events |-> <<>>, attempts |-> 0,
           raised |-> FALSE]

EventIds == {1, 2}
EventBatches == SeqsUpTo(EventIds, MaxBatch)

PollerInit ==
    /\ poller \in {initializeDatabaseStart(databaseUrl) : databaseUrl \in BOOLEAN}
    /\ store = [rows |-> <<>>, files |-> <<>>, lost |-> 0, saves |-> 0, last |-> NoSave]
    /\ leaves = <<>>
    /\ call = NoCall
    /\ ScoreIdle
    /\ RegistryIdle
    /\ LenderIdle

InitializeDatabaseSettles(resolved) ==
    /\ poller.init = "pending"
    /\ poller' = initializeDatabaseSettle(poller, resolved)
    /\ UNCHANGED <<lenderVars, registryVars, leaves, call, scoreVars, store>>

\* One round of startPolling for one wallet and chain: indexWallet returned
\* `events`, saveEvents is awaited, and a rejection is caught and logged,
\* the events being kept nowhere.
PollOnce(events, served) ==
    /\ store.saves < MaxSaves
    /\ \E r \in {saveEvents(poller, store, events, served)} :
         store' = [rows |-> r.rows, files |-> r.files,
                   lost |-> store.lost + (Len(events) - r.kept),
                   saves |-> store.saves + 1,
                   last |-> [path |-> r.path, init |-> poller.init,
                             events |-> events, attempts |-> r.attempts,
                             raised |-> r.raised]]
    /\ UNCHANGED <<lenderVars, registryVars, leaves, call, scoreVars, poller>>

PollerNext ==
    \/ \E resolved \in BOOLEAN : InitializeDatabaseSettles(resolved)
    \/ \E events \in EventBatches, served \in 0..MaxBatch : PollOnce(events, served)

PollerSpec == PollerInit /\ [][PollerNext]_vars

\* C30: after a failed database initialisation every saveEvents call writes
\* the events to a file, attempts no insert and does not raise; after a
\* successful one every saveEvents call takes the database path.
C30_StorageFallback ==
    /\ store.last.path # "none" /\ store.last.init = "failed" =>
          /\ store.last.path = "file"
          /\ store.last.attempts = 0
          /\ ~store.last.raised
    /\ store.last.path # "none" /\ store.last.init = "ok" =>
          store.last.path = "database"

\* After a failed initialisation a batch is sent to the database, the
\* insert is rejected and the batch is kept nowhere.
C30_InsertAfterFailedInit ==
    /\ poller.init = "failed" /\ store.last.init = "failed"
    /\ store.last.path = "database" /\ store.last.attempts > 0
    /\ store.last.raised
    /\ store.lost > 0 /\ store.files = <<>>

====
